---- MODULE Spec2Model ----
(***************************************************************************)
(* A model of pylogfig (src/pylogfig/main.py): the singleton Config        *)
(* facade, the format dispatcher _load_config, the format parsers, and     *)
(* the dotted-key lookup Config.get.                                       *)
(*                                                                         *)
(* Python strings are sequences of one-character strings, so that          *)
(* str.strip, str.split, the "in" test and os.path.splitext are computed   *)
(* the way the interpreter computes them.  Python objects are records      *)
(* tagged with their type in field t.                                      *)
(***************************************************************************)
EXTENDS Integers, Sequences, FiniteSets, TLC

VARIABLES
    instance,         \* Config._instance: "None" or "obj" (the one object)
    created,          \* how many Config objects object.__new__ has made
    _config,          \* self._config, Unset while the attribute is missing
    _logging_config,  \* self._logging_config, Unset while missing
    applied,          \* what logging.config.dictConfig configured last
    logging_imported, \* whether the process imported logging.config
    call,             \* the operation performed last, with its arguments
    ret,              \* how that operation ended: a return or a raise
    loads,            \* the _load_config calls that operation made
    first,            \* how the construction that made the instance ended
    file,             \* the file a parser under study is reading
    pos,              \* parse_properties_file: next unread character
    config_dict,      \* parse_properties_file: the accumulator
    pc                \* position of the parser under study

vars == <<instance, created, _config, _logging_config, applied,
          logging_imported, call, ret, loads, first, file, pos, config_dict,
          pc>>

facade_vars == <<instance, created, _config, _logging_config, applied,
                 logging_imported, loads, first>>

parser_vars == <<file, pos, config_dict, pc>>

-----------------------------------------------------------------------------
(* Bounds of the model.                                                    *)

\* longest properties text read, in characters
MaxFileLen == 5

\* most elements in an XML document
MaxNodes == 3

\* longest lookup key, in characters
MaxKeyLen == 3

-----------------------------------------------------------------------------
(* Python values and call outcomes.                                        *)

PyNone == [t |-> "None"]

PyStr(s) == [t |-> "str", v |-> s]

PyInt(n) == [t |-> "int", v |-> n]

PyList(s) == [t |-> "list", v |-> s]

PyDict(f) == [t |-> "dict", v |-> f]

EmptyDict == PyDict(<< >>)

\* an attribute that was never assigned: reading it raises AttributeError
Unset == [t |-> "unset"]

\* bool(x) for the values the program tests
Truthy(x) ==
    CASE x.t = "None" -> FALSE
      [] x.t = "str"  -> x.v # << >>
      [] x.t = "dict" -> DOMAIN x.v # {}
      [] x.t = "list" -> x.v # << >>
      [] x.t = "int"  -> x.v # 0
      [] OTHER        -> TRUE

Return(v) == [kind |-> "return", value |-> v]

Raise(e, m) == [kind |-> "raise", exc |-> e, msg |-> m]

NoRet == [kind |-> "none"]

NoCall == [op |-> "none"]

\* "except (A, B) as e: raise New(...)": the listed exceptions are replaced,
\* every other outcome passes through
Except(out, caught, new, m) ==
    IF out.kind = "raise" /\ out.exc \in caught THEN Raise(new, m) ELSE out

-----------------------------------------------------------------------------
(* str methods.                                                            *)

Whitespace == {" ", "\t", "\n", "\r"}

RECURSIVE lstrip(_)
lstrip(s) ==
    IF s # << >> /\ Head(s) \in Whitespace THEN lstrip(Tail(s)) ELSE s

RECURSIVE rstrip(_)
rstrip(s) ==
    IF s # << >> /\ s[Len(s)] \in Whitespace
    THEN rstrip(SubSeq(s, 1, Len(s) - 1))
    ELSE s

\* str.strip()
strip(s) == rstrip(lstrip(s))

\* c in s
contains(s, c) == \E i \in 1..Len(s) : s[i] = c

\* s.find(c), 1-based, 0 when absent
RECURSIVE find_from(_, _, _)
find_from(s, c, i) ==
    IF i > Len(s) THEN 0
    ELSE IF s[i] = c THEN i
    ELSE find_from(s, c, i + 1)

find(s, c) == find_from(s, c, 1)

\* s.rfind(c), 1-based, 0 when absent
RECURSIVE rfind_from(_, _, _)
rfind_from(s, c, i) ==
    IF i < 1 THEN 0
    ELSE IF s[i] = c THEN i
    ELSE rfind_from(s, c, i - 1)

rfind(s, c) == rfind_from(s, c, Len(s))

\* s.split(c, 1) for an s that contains c: the text before and after the
\* first c
split1(s, c) ==
    LET i == find(s, c)
    IN  <<SubSeq(s, 1, i - 1), SubSeq(s, i + 1, Len(s))>>

\* s.split(c): every piece between occurrences of c, empty pieces kept
RECURSIVE split(_, _)
split(s, c) ==
    LET i == find(s, c)
    IN  IF i = 0 THEN <<s>>
        ELSE <<SubSeq(s, 1, i - 1)>> \o split(SubSeq(s, i + 1, Len(s)), c)

\* s.startswith(c)
startswith(s, c) == s # << >> /\ s[1] = c

\* os.path.splitext(p)[1]: the text from the last dot on, provided that dot
\* comes after the last "/" and after a character of the file name that is
\* not itself a dot
splitext(p) ==
    LET sepIndex == rfind(p, "/")
        dotIndex == rfind(p, ".")
    IN  IF /\ dotIndex > sepIndex
           /\ \E i \in (sepIndex + 1)..(dotIndex - 1) : p[i] # "."
        THEN SubSeq(p, dotIndex, Len(p))
        ELSE << >>

-----------------------------------------------------------------------------
(* Files.  A file is absent, or holds content written in one format:      *)
(* text is what a line reader sees, root what ElementTree builds from it,  *)
(* tree what the format's library parser returns for it.                   *)

File(k, txt, tr, rt) == [kind |-> k, text |-> txt, tree |-> tr, root |-> rt]

NoElement == [tag |-> << >>, text |-> PyNone, children |-> << >>]

AbsentFile == File("absent", << >>, PyNone, NoElement)

TextFile(k, txt) == File(k, txt, PyNone, NoElement)

XmlFile(rt) == File("xml", << >>, PyNone, rt)

\* open(path): FileNotFoundError for an absent file
open(f) ==
    IF f.kind = "absent" THEN Raise("FileNotFoundError", "open") ELSE Return(f)

-----------------------------------------------------------------------------
(* parse_properties_file.                                                  *)

\* the body of "for line in file": one line folded into config_dict
props_step_colon_first(d, rawline) ==
    LET line == strip(rawline)
        put(kv) == (strip(kv[1]) :> PyStr(strip(kv[2]))) @@ d
    IN  IF line = << >> \/ startswith(line, "#") \/ startswith(line, "!")
        THEN d
        ELSE IF contains(line, ":") THEN put(split1(line, ":"))
        ELSE IF contains(line, "=") THEN put(split1(line, "="))
        ELSE d

props_step(d, rawline) ==
    LET line == strip(rawline)
        put(kv) == (strip(kv[1]) :> PyStr(strip(kv[2]))) @@ d
    IN  IF line = << >> \/ startswith(line, "#") \/ startswith(line, "!")
        THEN d
        ELSE IF contains(line, "=") THEN put(split1(line, "="))
        ELSE IF contains(line, ":") THEN put(split1(line, ":"))
        ELSE d

\* the end of the line that starts at p: its newline, or the end of the text
line_end(text, p) ==
    LET nl == find_from(text, "\n", p)
    IN  IF nl = 0 THEN Len(text) ELSE nl

\* the whole loop over the text from p on
RECURSIVE props_loop(_, _, _)
props_loop(d, text, p) ==
    IF p > Len(text) THEN d
    ELSE props_loop(props_step(d, SubSeq(text, p, line_end(text, p))),
                    text, line_end(text, p) + 1)

\* parse_properties_file as one call
parse_properties_file(f) ==
    LET o == open(f)
    IN  IF o.kind = "raise"
        THEN Except(o, {"FileNotFoundError"}, "ConfigParseError", "File not found")
        ELSE Return(PyDict(props_loop(<< >>, f.text, 1)))

\* parse_properties_file, a line at a time

PropsOpen ==
    /\ pc = "open"
    /\ IF open(file).kind = "raise"
       THEN /\ pc' = "done"
            /\ ret' = Except(open(file), {"FileNotFoundError"},
                             "ConfigParseError", "File not found")
       ELSE /\ pc' = "loop"
            /\ ret' = ret
    /\ UNCHANGED <<file, pos, config_dict, call>>
    /\ UNCHANGED facade_vars

PropsLine ==
    /\ pc = "loop"
    /\ pos <= Len(file.text)
    /\ config_dict' =
           props_step(config_dict, SubSeq(file.text, pos, line_end(file.text, pos)))
    /\ pos' = line_end(file.text, pos) + 1
    /\ UNCHANGED <<file, pc, call, ret>>
    /\ UNCHANGED facade_vars

PropsReturn ==
    /\ pc = "loop"
    /\ pos > Len(file.text)
    /\ pc' = "done"
    /\ ret' = Return(PyDict(config_dict))
    /\ UNCHANGED <<file, pos, config_dict, call>>
    /\ UNCHANGED facade_vars

Alphabet == {" ", "\n", "=", ":", "#", "!", "a", "b"}

Texts == UNION {[1..n -> Alphabet] : n \in 0..MaxFileLen}

FacadeIdle ==
    /\ instance = "None"
    /\ created = 0
    /\ _config = Unset
    /\ _logging_config = Unset
    /\ applied = Unset
    /\ logging_imported = FALSE
    /\ loads = << >>
    /\ first = NoCall

InitProps ==
    /\ FacadeIdle
    /\ call = [op |-> "parse_properties_file"]
    /\ ret = NoRet
    /\ file \in {AbsentFile} \cup {TextFile("properties", t) : t \in Texts}
    /\ pos = 1
    /\ config_dict = << >>
    /\ pc = "open"

NextProps == PropsOpen \/ PropsLine \/ PropsReturn

SpecProps == InitProps /\ [][NextProps]_vars

-----------------------------------------------------------------------------
(* parse_xml_file.                                                         *)

RECURSIVE xml_to_dict(_)

\* "for child in element: result[child.tag] = xml_to_dict(child)", from the
\* i-th child on
RECURSIVE xml_children_first_wins(_, _, _)
xml_children_first_wins(result, children, i) ==
    IF i > Len(children) THEN result
    ELSE xml_children_first_wins(
             result @@ (children[i].tag :> xml_to_dict(children[i])),
             children, i + 1)

RECURSIVE xml_children(_, _, _)
xml_children(result, children, i) ==
    IF i > Len(children) THEN result
    ELSE xml_children((children[i].tag :> xml_to_dict(children[i])) @@ result,
                      children, i + 1)

xml_to_dict(element) ==
    IF Len(element.children) = 0
    THEN element.text
    ELSE PyDict(xml_children(<< >>, element.children, 1))

\* ET.parse(file_path).getroot()
ET_parse(f) ==
    CASE f.kind = "absent" -> Raise("FileNotFoundError", "open")
      [] f.kind = "xml"    -> Return(f.root)
      [] OTHER             -> Raise("ParseError", "not well-formed")

parse_xml_file(f) ==
    LET tree == ET_parse(f)
    IN  IF tree.kind = "raise"
        THEN Except(tree, {"ParseError", "FileNotFoundError"},
                    "ConfigParseError", "Failed to parse XML file")
        ELSE Return(xml_to_dict(tree.value))

XmlParse ==
    /\ pc = "call"
    /\ ret' = parse_xml_file(file)
    /\ pc' = "done"
    /\ UNCHANGED <<file, pos, config_dict, call>>
    /\ UNCHANGED facade_vars

Tags == {<<"a">>, <<"b">>}

ElementTexts == {PyNone, PyStr(<<"1">>), PyStr(<<"2">>)}

\* the element trees of exactly n elements, and the child lists of m
RECURSIVE ElementsOfSize(_)
RECURSIVE ForestsOfSize(_)
ElementsOfSize(n) ==
    {[tag |-> g, text |-> x, children |-> c] :
        g \in Tags, x \in ElementTexts, c \in ForestsOfSize(n - 1)}

ForestsOfSize(m) ==
    IF m = 0 THEN {<< >>}
    ELSE UNION {{<<e>> \o f : e \in ElementsOfSize(j), f \in ForestsOfSize(m - j)} :
                   j \in 1..m}

Elements == UNION {ElementsOfSize(n) : n \in 1..MaxNodes}

GarbageFile == TextFile("garbage", <<"#">>)

InitXml ==
    /\ FacadeIdle
    /\ call = [op |-> "parse_xml_file"]
    /\ ret = NoRet
    /\ file \in {AbsentFile, GarbageFile} \cup {XmlFile(r) : r \in Elements}
    /\ pos = 1
    /\ config_dict = << >>
    /\ pc = "call"

NextXml == XmlParse

SpecXml == InitXml /\ [][NextXml]_vars

-----------------------------------------------------------------------------
(* Config.get.                                                             *)

\* the loop "for key in keys", from the i-th segment on; only a dict has a
\* get method
RECURSIVE get_loop(_, _, _, _)
get_loop(value, keys, i, default) ==
    IF i > Len(keys) THEN Return(value)
    ELSE IF value.t # "dict"
    THEN Raise("AttributeError", "object has no attribute 'get'")
    ELSE LET next == IF keys[i] \in DOMAIN value.v
                     THEN value.v[keys[i]]
                     ELSE default
         IN  IF next.t = "None"
             THEN Return(default)
             ELSE get_loop(next, keys, i + 1, default)

get(cfg, key, default) ==
    IF cfg = Unset
    THEN Raise("AttributeError", "'Config' object has no attribute '_config'")
    ELSE IF Truthy(key)
    THEN get_loop(cfg, split(key.v, "."), 1, default)
    ELSE Return(cfg)

Get(key, default) ==
    /\ instance = "obj"
    /\ call' = [op |-> "get", key |-> key, default |-> default]
    /\ ret' = get(_config, key, default)
    /\ loads' = << >>
    /\ UNCHANGED <<instance, created, _config, _logging_config, applied,
                   logging_imported, first>>
    /\ UNCHANGED parser_vars

KeyChars == {".", "a", "b"}

GetKeys == {PyNone} \cup
           {PyStr(s) : s \in UNION {[1..n -> KeyChars] : n \in 0..MaxKeyLen}}

GetDefaults == {PyNone, PyInt(42), PyStr(<<"n", "o", "n", "e">>),
                PyDict(<<"b">> :> PyInt(7))}

TreeKeys == {<<"a">>, <<"b">>}

Leaves == {PyNone, PyInt(5), PyList(<<PyInt(1)>>)}

DictsOver(values) ==
    {PyDict(f) : f \in UNION {[K -> values] : K \in SUBSET TreeKeys}}

GetTrees == DictsOver(Leaves \cup DictsOver({PyNone, PyInt(5)}))

ParserIdle ==
    /\ file = AbsentFile
    /\ pos = 1
    /\ config_dict = << >>
    /\ pc = "idle"

InitGet ==
    /\ instance = "obj"
    /\ created = 1
    /\ _config \in GetTrees
    /\ _logging_config = PyNone
    /\ applied = Unset
    /\ logging_imported = FALSE
    /\ loads = << >>
    /\ first = [op |-> "Config", ok |-> TRUE, loaded |-> _config]
    /\ call = NoCall
    /\ ret = NoRet
    /\ ParserIdle

NextGet == \E key \in GetKeys, default \in GetDefaults : Get(key, default)

SpecGet == InitGet /\ [][NextGet]_vars

-----------------------------------------------------------------------------
(* The other format parsers.  What a library does with a file is read off  *)
(* the file's kind: it returns the file's tree when the content is in its  *)
(* own format and raises its decode error on any other content.            *)

lib_load(f, format, error) ==
    IF f.kind = format THEN Return(f.tree) ELSE Raise(error, "malformed")

\* "with open(...) as file: return load(file)"
open_and_load(f, format, error) ==
    IF open(f).kind = "raise" THEN open(f) ELSE lib_load(f, format, error)

parse_toml_file(f) ==
    Except(open_and_load(f, "toml", "TOMLDecodeError"),
           {"TOMLDecodeError", "FileNotFoundError"},
           "ConfigParseError", "Failed to parse TOML file")

parse_json_file(f) ==
    Except(open_and_load(f, "json", "JSONDecodeError"),
           {"JSONDecodeError", "FileNotFoundError"},
           "ConfigParseError", "Failed to parse JSON file")

parse_yaml_file(f) ==
    Except(open_and_load(f, "yaml", "YAMLError"),
           {"YAMLError", "FileNotFoundError"},
           "ConfigParseError", "Failed to parse YAML file")

\* ConfigParser.read(path) skips a file it cannot open, and the sections of
\* a parser that read nothing are empty
configparser_read(f) ==
    IF f.kind = "absent" THEN Return(EmptyDict)
    ELSE lib_load(f, "ini", "configparser.Error")

parse_ini_file(f) ==
    Except(configparser_read(f),
           {"configparser.Error", "FileNotFoundError"},
           "ValueError", "Failed to parse INI file")

\* dotenv_values(path): an empty mapping for a file that is absent; lines it
\* cannot parse are left out, so content of another format yields no entry
parse_env_file(f) ==
    IF f.kind = "env" THEN Return(f.tree) ELSE Return(EmptyDict)

-----------------------------------------------------------------------------
(* The files on disk.                                                      *)

dot_toml == <<".", "t", "o", "m", "l">>
dot_json == <<".", "j", "s", "o", "n">>
dot_yaml == <<".", "y", "a", "m", "l">>
dot_yml == <<".", "y", "m", "l">>
dot_ini == <<".", "i", "n", "i">>
dot_xml == <<".", "x", "m", "l">>
dot_properties == <<".", "p", "r", "o", "p", "e", "r", "t", "i", "e", "s">>
dot_env == <<".", "e", "n", "v">>
dot_config == <<".", "c", "o", "n", "f", "i", "g">>

TomlTree == PyDict(<<"a">> :> PyDict(<<"b">> :> PyInt(5)))
JsonTree == PyDict(<<"j">> :> PyList(<<PyInt(1)>>))
YamlTree == PyDict(<<"y">> :> PyNone)
IniTree == PyDict(<<"s">> :> PyDict(<<"k">> :> PyStr(<<"v">>)))
EnvTree == PyDict(<<"E">> :> PyStr(<<"1">>))
version == <<"v", "e", "r", "s", "i", "o", "n">>
LoggingTree == PyDict(version :> PyInt(1))

XmlRoot ==
    [tag |-> <<"r">>, text |-> PyNone, children |->
        << [tag |-> <<"a">>, text |-> PyStr(<<"1">>), children |-> << >>],
           [tag |-> <<"a">>, text |-> PyStr(<<"2">>), children |-> << >>] >>]

TreeFile(k, tr) == File(k, <<"{", "}">>, tr, NoElement)

\* path -> file, for the paths the process is run with.  Files whose text
\* is not spelled out read as one line without a separator.
Disk ==
    (<<"a">> \o dot_toml :> TreeFile("toml", TomlTree))
    @@ (<<"a">> \o dot_json :> TreeFile("json", JsonTree))
    @@ (<<"a">> \o dot_yaml :> TreeFile("yaml", YamlTree))
    @@ (<<"a">> \o dot_yml :> TreeFile("yaml", YamlTree))
    @@ (<<"a">> \o dot_ini :> TreeFile("ini", IniTree))
    @@ (<<"a">> \o dot_xml :> XmlFile(XmlRoot))
    @@ (<<"a">> \o dot_properties :>
            TextFile("properties", <<"a", "=", "b", "\n", "c", ":", "d", "\n">>))
    @@ (<<"a">> \o dot_env :> TreeFile("env", EnvTree))
    @@ (dot_env :> TreeFile("env", EnvTree))
    @@ (<<"a">> \o dot_config :> TreeFile("toml", TomlTree))
    @@ (<<"a", ".", "T", "O", "M", "L">> :> TreeFile("toml", TomlTree))
    @@ (<<"a", ".", "t", "x", "t">> :> TreeFile("toml", TomlTree))
    @@ (<<"d", ".", "d", "/", "a">> :> TreeFile("toml", TomlTree))
    @@ (<<"b">> \o dot_ini :> GarbageFile)
    @@ (<<"n">> \o dot_ini :> AbsentFile)
    @@ (<<"l">> \o dot_json :> TreeFile("json", LoggingTree))
    @@ (<<"e">> \o dot_json :> TreeFile("json", EmptyDict))

Paths == DOMAIN Disk

-----------------------------------------------------------------------------
(* Config._load_config.                                                    *)

Loaded(name, out) == [parser |-> name, out |-> out]

\* the branch taken for a file extension: the parser called, and how the
\* call ends.  The "except Exception" clause logs and re-raises what it
\* caught, so every outcome leaves _load_config as it arose.
\* the last two branches: no parser is called
reject_all_alike(file_extension) ==
    Loaded("none", Raise("ConfigParseError", "Invalid file extension"))

reject(file_extension) ==
    IF file_extension = dot_config
    THEN Loaded("none", Raise("ConfigParseError", "Must specify file extension"))
    ELSE Loaded("none", Raise("ConfigParseError", "Invalid file extension"))

dispatch(file_extension, f) ==
    IF file_extension = dot_toml THEN Loaded("toml", parse_toml_file(f))
    ELSE IF file_extension = dot_json THEN Loaded("json", parse_json_file(f))
    ELSE IF file_extension = dot_yaml \/ file_extension = dot_yml
    THEN Loaded("yaml", parse_yaml_file(f))
    ELSE IF file_extension = dot_ini THEN Loaded("ini", parse_ini_file(f))
    ELSE IF file_extension = dot_xml THEN Loaded("xml", parse_xml_file(f))
    ELSE IF file_extension = dot_properties
    THEN Loaded("properties", parse_properties_file(f))
    ELSE IF file_extension = dot_env THEN Loaded("env", parse_env_file(f))
    ELSE reject(file_extension)

\* the extension dispatched on: the override when it is truthy, else the
\* extension of the path
file_extension_path_first(file_path, file_type) ==
    IF splitext(file_path.v) # << >> THEN splitext(file_path.v)
    ELSE IF Truthy(file_type) THEN file_type.v
    ELSE << >>

file_extension_of(file_path, file_type) ==
    IF Truthy(file_type) THEN file_type.v ELSE splitext(file_path.v)

\* _load_config(file_path, file_type), with the arguments kept for the record
_load_config(file_path, file_type) ==
    [file_path |-> file_path, file_type |-> file_type] @@
    dispatch(file_extension_of(file_path, file_type), Disk[file_path.v])

-----------------------------------------------------------------------------
(* Config.__new__, Config._setup and Config.load_logging_config.           *)

\* logging.config.dictConfig(config): the name logging.config resolves only
\* in a process that imported the submodule; a configuration without a
\* "version" entry is refused
dictConfig(config, imported) ==
    IF ~imported
    THEN Raise("AttributeError", "module 'logging' has no attribute 'config'")
    ELSE IF version \in DOMAIN config.v
    THEN Return(PyNone)
    ELSE Raise("ValueError", "dictionary doesn't specify a version")

\* "if self._logging_config: logging.config.dictConfig(self._logging_config)":
\* the outcome, and what the logging subsystem is configured with after it
apply_logging(config, imported, before) ==
    IF Truthy(config)
    THEN [out |-> dictConfig(config, imported),
          applied |-> IF dictConfig(config, imported).kind = "return"
                      THEN config ELSE before]
    ELSE [out |-> Return(PyNone), applied |-> before]

\* _setup: the attributes, the loads made and the outcome
_setup(args, imported, before) ==
    LET primary == _load_config(args.config_file_path, args.config_file_type)
        logging == _load_config(args.logging_config_file_path,
                                args.logging_config_file_type)
    IN  IF primary.out.kind = "raise"
        THEN [config |-> Unset, logging_config |-> Unset, applied |-> before,
              loads |-> <<primary>>, out |-> primary.out]
        ELSE IF ~Truthy(args.logging_config_file_path)
        THEN [config |-> primary.out.value, logging_config |-> PyNone,
              applied |-> before, loads |-> <<primary>>,
              out |-> Return(PyNone)]
        ELSE IF logging.out.kind = "raise"
        THEN [config |-> primary.out.value, logging_config |-> Unset,
              applied |-> before, loads |-> <<primary, logging>>,
              out |-> logging.out]
        ELSE [config |-> primary.out.value,
              logging_config |-> logging.out.value,
              applied |-> apply_logging(logging.out.value, imported, before).applied,
              loads |-> <<primary, logging>>,
              out |-> apply_logging(logging.out.value, imported, before).out]

\* Config(...): __new__
new_always_sets_up(inst) == TRUE

new_needs_setup(inst) == inst = "None"

Construct(args) ==
    /\ call' = [op |-> "Config", args |-> args]
    /\ IF new_needs_setup(instance)
       THEN LET s == _setup(args, logging_imported, applied)
            IN  /\ instance' = "obj"
                /\ created' = created + 1
                /\ _config' = IF s.config = Unset THEN _config ELSE s.config
                /\ _logging_config' =
                       IF s.logging_config = Unset
                       THEN _logging_config ELSE s.logging_config
                /\ applied' = s.applied
                /\ loads' = s.loads
                /\ ret' = IF s.out.kind = "raise" THEN s.out ELSE Return("obj")
                /\ first' = IF instance = "None"
                            THEN [op |-> "Config", ok |-> s.out.kind = "return",
                                  loaded |-> s.config]
                            ELSE first
       ELSE /\ ret' = Return("obj")
            /\ loads' = << >>
            /\ UNCHANGED <<instance, created, _config, _logging_config,
                           applied, first>>
    /\ UNCHANGED logging_imported
    /\ UNCHANGED parser_vars

\* load_logging_config(input).  The str branch calls _load_config with one
\* argument where the method takes two, which is a TypeError at the call.
load_logging_config(input, current, imported, before) ==
    IF input.t = "dict"
    THEN [logging_config |-> input,
          applied |-> apply_logging(input, imported, before).applied,
          out |-> apply_logging(input, imported, before).out]
    ELSE IF input.t = "str"
    THEN [logging_config |-> current, applied |-> before,
          out |-> Raise("TypeError",
                        "_load_config() missing 1 required positional argument: 'file_type'")]
    ELSE [logging_config |-> current, applied |-> before,
          out |-> Raise("TypeError", "Expected type 'dict' or 'str' for input")]

LoadLoggingConfig(input) ==
    /\ instance = "obj"
    /\ LET r == load_logging_config(input, _logging_config, logging_imported,
                                    applied)
       IN  /\ _logging_config' = r.logging_config
           /\ applied' = r.applied
           /\ ret' = r.out
    /\ call' = [op |-> "load_logging_config", input |-> input]
    /\ loads' = << >>
    /\ UNCHANGED <<instance, created, _config, logging_imported, first>>
    /\ UNCHANGED parser_vars

-----------------------------------------------------------------------------
(* The process: one Config class, called in any order.                     *)

Args(p, t, lp, lt) ==
    [config_file_path |-> p, config_file_type |-> t,
     logging_config_file_path |-> lp, logging_config_file_type |-> lt]

FileTypes == {PyNone, PyStr(<< >>), PyStr(dot_toml), PyStr(dot_json),
              PyStr(dot_ini), PyStr(dot_xml), PyStr(dot_properties),
              PyStr(dot_config), PyStr(<<"i", "n", "i">>)}

\* every primary path under every override without a logging file, and the
\* logging arguments tried on a primary file that loads
ConstructArgs ==
    {Args(PyStr(p), t, PyNone, PyNone) : p \in Paths, t \in FileTypes}
    \cup {Args(PyStr(<<"a">> \o dot_toml), PyNone, PyStr(lp), lt) :
             lp \in {<<"l">> \o dot_json, <<"e">> \o dot_json,
                     <<"n">> \o dot_ini, <<"b">> \o dot_ini},
             lt \in {PyNone, PyStr(dot_json)}}

LoggingInputs == {LoggingTree, PyDict(<<"k">> :> PyInt(1)), EmptyDict,
                  PyStr(<<"l">> \o dot_json), PyInt(5), PyNone}

FacadeKeys == {PyNone, PyStr(<<"a", ".", "b">>), PyStr(<<"a", ".", "b", ".", "c">>)}

Init ==
    /\ instance = "None"
    /\ created = 0
    /\ _config = Unset
    /\ _logging_config = Unset
    /\ applied = Unset
    /\ logging_imported \in BOOLEAN
    /\ loads = << >>
    /\ first = NoCall
    /\ call = NoCall
    /\ ret = NoRet
    /\ ParserIdle

Next ==
    \/ \E args \in ConstructArgs : Construct(args)
    \/ \E input \in LoggingInputs : LoadLoggingConfig(input)
    \/ \E key \in FacadeKeys : Get(key, PyInt(42))

Spec == Init /\ [][Next]_vars

-----------------------------------------------------------------------------
(* The facade and the dispatcher as the specification words them.          *)

\* the extension of a path: what follows, dot included, the last dot of its
\* last component, unless only dots come before that dot in the component
ExtensionOf(p) ==
    LET slashes == {i \in 1..Len(p) : p[i] = "/"}
        start == IF slashes = {} THEN 1
                 ELSE 1 + CHOOSE i \in slashes : \A j \in slashes : j <= i
        dots == {i \in start..Len(p) : p[i] = "."}
        last == CHOOSE i \in dots : \A j \in dots : j <= i
    IN  IF dots # {} /\ \E i \in start..(last - 1) : p[i] # "."
        THEN SubSeq(p, last, Len(p))
        ELSE << >>

\* the extension table, matched case-sensitively
ParserNamed(tag) ==
    CASE tag = dot_toml -> "toml"
      [] tag = dot_json -> "json"
      [] tag \in {dot_yaml, dot_yml} -> "yaml"
      [] tag = dot_ini -> "ini"
      [] tag = dot_xml -> "xml"
      [] tag = dot_properties -> "properties"
      [] tag = dot_env -> "env"
      [] OTHER -> "none"

\* the format tag of a load: the override if one is supplied, else the
\* extension of the path
TagOf(l) ==
    IF l.file_type.t = "str" /\ l.file_type.v # << >>
    THEN l.file_type.v
    ELSE ExtensionOf(l.file_path.v)

Overridden(l) == l.file_type.t = "str" /\ l.file_type.v # << >>

FirstSucceeded == first # NoCall /\ first.ok

\* C1: at most one instance is ever made, and once the first construction
\* has succeeded every later Config(...) call, whatever its arguments,
\* returns that instance, loads nothing, and leaves the primary tree the one
\* the first call loaded.
C1_SingletonFrozen ==
    /\ [](created <= 1)
    /\ [](FirstSucceeded =>
            /\ instance = "obj"
            /\ created = 1
            /\ _config = first.loaded)
    /\ [][(FirstSucceeded /\ call'.op = "Config") =>
            /\ ret' = Return("obj")
            /\ loads' = << >>
            /\ instance' = instance
            /\ created' = created
            /\ _config' = _config]_vars

\* a later construction, given another path and an override, returned the
\* instance with the tree of the first path and loaded nothing
C1_Witness ==
    /\ FirstSucceeded
    /\ call.op = "Config"
    /\ call.args.config_file_path = PyStr(<<"a">> \o dot_json)
    /\ call.args.config_file_type = PyStr(dot_ini)
    /\ ret = Return("obj")
    /\ loads = << >>
    /\ _config = TomlTree

\* a file is missing, or malformed for the format of a parser: a properties
\* file has no malformed content
BadFor(f, parser) ==
    \/ f.kind = "absent"
    \/ parser # "properties" /\ f.kind # parser

\* C4: a load, in any supported format but .env, of a file that is missing or
\* malformed for that format ends with ConfigParseError.
C4_ParseErrorUniform ==
    \A i \in DOMAIN loads :
        (/\ loads[i].parser \in {"toml", "json", "yaml", "ini", "xml", "properties"}
         /\ BadFor(Disk[loads[i].file_path.v], loads[i].parser))
            => /\ loads[i].out.kind = "raise"
               /\ loads[i].out.exc = "ConfigParseError"

\* C5: a Config(...) call returns only an instance whose construction ran to
\* its end: its primary tree and its logging configuration are set, and no
\* failed construction stands behind it.
C5_NoPartialState ==
    (call.op = "Config" /\ ret.kind = "return") =>
        /\ FirstSucceeded
        /\ _config # Unset
        /\ _logging_config # Unset

\* C6: the parser a load invokes is the one the extension table gives for
\* the override when an override is supplied, whatever the path, and the one
\* it gives for the extension of the path only when none is supplied.
C6_OverrideDecidesParser ==
    \A i \in DOMAIN loads : loads[i].parser = ParserNamed(TagOf(loads[i]))

\* a load whose override names one parser and whose path extension names
\* another, which invoked the override's
C6_Witness ==
    \E i \in DOMAIN loads :
        /\ Overridden(loads[i])
        /\ ParserNamed(ExtensionOf(loads[i].file_path.v)) = "json"
        /\ ParserNamed(loads[i].file_type.v) = "ini"
        /\ loads[i].parser = "ini"

\* C7: a load whose format tag is outside the supported set invokes no
\* parser and ends with ConfigParseError: the "must specify" error for
\* ".config", the "invalid extension" error for every other tag.
C7_UnsupportedTagFails ==
    \A i \in DOMAIN loads :
        ParserNamed(TagOf(loads[i])) = "none" =>
            /\ loads[i].parser = "none"
            /\ loads[i].out.kind = "raise"
            /\ loads[i].out.exc = "ConfigParseError"
            /\ loads[i].out.msg =
                   IF TagOf(loads[i]) = dot_config
                   THEN "Must specify file extension"
                   ELSE "Invalid file extension"

\* the load of a ".config" path without an override was refused with the
\* "must specify" error
C7_Witness ==
    \E i \in DOMAIN loads :
        /\ ~Overridden(loads[i])
        /\ ExtensionOf(loads[i].file_path.v) = dot_config
        /\ loads[i].parser = "none"
        /\ loads[i].out = Raise("ConfigParseError", "Must specify file extension")

\* C8: load_logging_config, on an instance whose construction succeeded,
\* raises a type error exactly when its input is neither a string nor a
\* mapping; a path string is loaded through the dispatcher and the mapping
\* it yields is stored.
C8_LoggingInputKinds ==
    (FirstSucceeded /\ call.op = "load_logging_config") =>
        /\ (ret.kind = "raise" /\ ret.exc = "TypeError")
               <=> call.input.t \notin {"str", "dict"}
        /\ call.input.t = "str" => (loads # << >> /\ _logging_config # Unset)

-----------------------------------------------------------------------------
(* The properties rules as the specification words them, stated on the     *)
(* text by position and not by running the parser.                         *)

\* the lines of a text, each as <<first, last>> character positions
LineSpans(text) ==
    {sp \in (1..Len(text)) \X (1..Len(text)) :
        /\ sp[1] <= sp[2]
        /\ sp[1] = 1 \/ text[sp[1] - 1] = "\n"
        /\ sp[2] = Len(text) \/ text[sp[2]] = "\n"
        /\ \A i \in sp[1]..(sp[2] - 1) : text[i] # "\n"}

\* a line without its surrounding whitespace
Trimmed(l) ==
    LET ink == {i \in 1..Len(l) : l[i] \notin Whitespace}
    IN  IF ink = {} THEN << >>
        ELSE SubSeq(l, CHOOSE i \in ink : \A j \in ink : i <= j,
                       CHOOSE i \in ink : \A j \in ink : i >= j)

FirstAt(l, c) ==
    IF \E i \in 1..Len(l) : l[i] = c
    THEN CHOOSE i \in 1..Len(l) : l[i] = c /\ \A j \in 1..(i - 1) : l[j] # c
    ELSE 0

\* where a trimmed line is split: the first "=", else the first ":", else 0
SplitAt(l) == IF FirstAt(l, "=") # 0 THEN FirstAt(l, "=") ELSE FirstAt(l, ":")

IsSkipped(l) == l = << >> \/ l[1] \in {"#", "!"} \/ SplitAt(l) = 0

KeyOf(l) == Trimmed(SubSeq(l, 1, SplitAt(l) - 1))

ValueOf(l) == Trimmed(SubSeq(l, SplitAt(l) + 1, Len(l)))

LineAt(text, sp) == Trimmed(SubSeq(text, sp[1], sp[2]))

\* the lines that carry a key and a value
PairSpans(text) == {sp \in LineSpans(text) : ~IsSkipped(LineAt(text, sp))}

\* C9: parse_properties_file on a file that exists returns, whatever its
\* lines are, the mapping whose keys are the trimmed keys of the lines that
\* are not skipped (empty, "#" or "!" lines, lines with neither "=" nor
\* ":"), split on the first "=" if there is one and else on the first ":",
\* each key mapped to the trimmed value of the last line that carries it.
C9_PropertiesRules ==
    (pc = "done" /\ file.kind # "absent") =>
        /\ ret.kind = "return"
        /\ ret.value.t = "dict"
        /\ LET d == ret.value.v
               pairs == PairSpans(file.text)
           IN  /\ DOMAIN d = {KeyOf(LineAt(file.text, sp)) : sp \in pairs}
               /\ \A k \in DOMAIN d :
                    \E sp \in pairs :
                        /\ KeyOf(LineAt(file.text, sp)) = k
                        /\ d[k] = PyStr(ValueOf(LineAt(file.text, sp)))
                        /\ \A later \in pairs :
                             KeyOf(LineAt(file.text, later)) = k
                                 => later[1] <= sp[1]

\* a finished parse of a text with a key written twice with different
\* values, the second of which is returned
C9_Witness ==
    /\ pc = "done"
    /\ file.kind # "absent"
    /\ ret.kind = "return"
    /\ \E s1, s2 \in PairSpans(file.text) :
          /\ s1[1] < s2[1]
          /\ KeyOf(LineAt(file.text, s1)) = KeyOf(LineAt(file.text, s2))
          /\ ValueOf(LineAt(file.text, s1)) # ValueOf(LineAt(file.text, s2))
          /\ ret.value.v[KeyOf(LineAt(file.text, s2))]
                 = PyStr(ValueOf(LineAt(file.text, s2)))

-----------------------------------------------------------------------------
(* The XML rule as the specification words it.                             *)

\* r is the conversion of e: the text of a childless element; else a
\* mapping over the children's tags, each tag holding the conversion of the
\* last child that bears it
RECURSIVE ConvertsTo(_, _)
ConvertsTo(e, r) ==
    IF e.children = << >>
    THEN r = e.text
    ELSE /\ r.t = "dict"
         /\ DOMAIN r.v = {e.children[i].tag : i \in 1..Len(e.children)}
         /\ \A g \in DOMAIN r.v :
              LET last == CHOOSE i \in 1..Len(e.children) :
                              /\ e.children[i].tag = g
                              /\ \A j \in (i + 1)..Len(e.children) :
                                   e.children[j].tag # g
              IN  ConvertsTo(e.children[last], r.v[g])

\* C10: parse_xml_file on a well-formed document returns the conversion of
\* its root: raw text (possibly None) for an element without children, else
\* a mapping from child tag to the child's conversion, the last sibling of a
\* tag being the one kept.
C10_XmlConversion ==
    (pc = "done" /\ file.kind = "xml") =>
        /\ ret.kind = "return"
        /\ ConvertsTo(file.root, ret.value)

\* <root><a>1</a><a>2</a></root> was converted to {"a": "2"}
C10_Witness ==
    /\ pc = "done"
    /\ file.kind = "xml"
    /\ file.root.children =
           << [tag |-> <<"a">>, text |-> PyStr(<<"1">>), children |-> << >>],
              [tag |-> <<"a">>, text |-> PyStr(<<"2">>), children |-> << >>] >>
    /\ ret = Return(PyDict(<<"a">> :> PyStr(<<"2">>)))

-----------------------------------------------------------------------------
(* The lookup rule as the specification words it.                          *)

\* walking segments i.. of keys from mapping value: "found" with the value
\* stored at the path, "absent" when a segment is not in the mapping
\* reached, "not a mapping" when segments remain at a value that is none
RECURSIVE Walk(_, _, _)
Walk(value, keys, i) ==
    IF i > Len(keys) THEN [status |-> "found", value |-> value]
    ELSE IF value.t # "dict" THEN [status |-> "not a mapping"]
    ELSE IF keys[i] \notin DOMAIN value.v THEN [status |-> "absent"]
    ELSE Walk(value.v[keys[i]], keys, i + 1)

\* the pieces of a key between its dots, in order
SegmentsOf(key) ==
    LET dots == {i \in 1..Len(key) : key[i] = "."}
        cut(k) == IF k = 0 THEN 0
                  ELSE IF k > Cardinality(dots) THEN Len(key) + 1
                  ELSE CHOOSE i \in dots :
                           Cardinality({j \in dots : j < i}) = k - 1
    IN  [k \in 1..(Cardinality(dots) + 1) |->
            SubSeq(key, cut(k - 1) + 1, cut(k) - 1)]

WalkOfCall == Walk(_config, SegmentsOf(call.key.v), 1)

\* C2: get with a non-empty dotted key returns the value stored at the path
\* when every segment is present, and the caller's default, without raising,
\* when a segment is absent from the mapping reached.
C2_GetReturnsStoredOrDefault ==
    (call.op = "get" /\ Truthy(call.key)) =>
        /\ WalkOfCall.status = "found" => ret = Return(WalkOfCall.value)
        /\ WalkOfCall.status = "absent" => ret = Return(call.default)

\* C3: get returns the caller's default, without raising, when segments of
\* the key remain at a value that is not a mapping.
C3_GetNonMappingIsNotFound ==
    (call.op = "get" /\ Truthy(call.key)
        /\ WalkOfCall.status = "not a mapping") => ret = Return(call.default)

====
